---- MODULE Spec2Model ----
(***************************************************************************)
(* Budgeting ledger of dnswd/arus.  Two iterations of the program are      *)
(* modelled side by side:                                                  *)
(*   program = "main"  src/main.go            (decimal amounts, logs)      *)
(*   program = "part0" src/unnamed/part_000   (float64 amounts, fixed and  *)
(*                                             percentage rules, no logs)  *)
(* Amounts are integers.  A percentage is the numerator of a fraction over *)
(* PctDen, so 100% is PctDen.  Incomes and fixed amounts are multiples of  *)
(* PctDen and PctDen is a power of two, so every product amount*percentage *)
(* is an integer: decimal arithmetic is exact there and float64 arithmetic *)
(* is exact on these operands as well.                                     *)
(***************************************************************************)
EXTENDS Integers, Sequences, FiniteSets, TLC

VARIABLES program, Categories, AllocationRules, Incomes, Expenses, calls, last,
          heap, repo, procs

vars == <<program, Categories, AllocationRules, Incomes, Expenses, calls, last,
         heap, repo, procs>>

\* ---------------------------------------------------------------- bounds
MaxRules == 3
MaxCalls == 3
FloatBits == 6
PctDen == 4

Pcts == {1, PctDen \div 2}
IncomeAmounts == {2 * PctDen}
ExpenseAmounts == {0, 2 * PctDen - 1}
\* part_000: incomes, fixed amounts and percentages
IncomeAmountsF == {PctDen, 3 * PctDen}
FixedAmounts == {2 * PctDen}
PctsF == {PctDen \div 2, PctDen - 1}
\* amounts of direct Credit and Debit calls
DirectAmounts == {-3, 0, 3, 2 * PctDen - 1}
Dates == {1}

\* ---------------------------------------------------------------- errors
\* an error is the sequence of its message and the values formatted into it
NoError == <<"nil">>
ErrNoAllocation == <<"user does not have allocation planned">>
ErrPercentage == <<"total allocation percentages exceed 100%">>
ErrFixed == <<"income insufficient for fixed allocations">>
ErrAcross == <<"insufficient funds across all categories">>
ErrCategoryMissing(name) == <<"category does not exist", name>>
\* a run-time panic, as the outcome of a call that does not return
PanicIndexOutOfRange == <<"panic: runtime error: index out of range">>
ErrInsufficient(name) == <<"insufficient funds in category", name>>

\* ---------------------------------------------------------------- Money
Abs(x) == IF x < 0 THEN -x ELSE x

NewMoney(amount, currency) == [Amount |-> amount, Currency |-> currency]

NewMoneyZero(currency) == [Amount |-> 0, Currency |-> currency]

IsZero(m) == m.Amount = 0

IsNegative(m) == m.Amount < 0

Add(m, other) == [Amount |-> m.Amount + other.Amount, Currency |-> m.Currency]

Subtract_Clamped(m, other) ==
  LET d == m.Amount - Abs(other.Amount)
  IN  [Amount |-> IF d < 0 THEN 0 ELSE d, Currency |-> m.Currency]

Subtract(m, other) ==
  IF IsNegative(other)
    THEN [Amount |-> m.Amount - Abs(other.Amount), Currency |-> m.Currency]
    ELSE [Amount |-> m.Amount - other.Amount, Currency |-> m.Currency]

\* decimal.Decimal.Mul of an amount by a percentage (numerator over PctDen)
Mul(amount, percentage) == (amount * percentage) \div PctDen

\* ------------------------------------------------------------- Category
CategoryTypes == {"Expense", "Emergency", "Savings"}

\* bug variants of the definitions below, used to show that the properties at the
\* end of the module depend on them
deductionOrder_EmergencyFirst == <<"Emergency", "Expense", "Savings">>

Credit_Overwrite(c, amount) == [c EXCEPT !.Balance = amount]

Debit_OffByOne(c, amount) ==
  IF c.Balance.Amount <= amount.Amount
    THEN [err |-> ErrInsufficient(c.Type), cat |-> c]
    ELSE [err |-> NoError, cat |-> [c EXCEPT !.Balance = Subtract(c.Balance, amount)]]

deductionOrder == <<"Expense", "Emergency", "Savings">>

\* CategoryType.String indexes an array of the three names
String(c) == CASE c \in CategoryTypes -> c

\* fmt.Errorf("category %s does not exist", rule.CategoryType.String()): with a
\* CategoryType outside the three declared constants String panics and no error
\* is returned
CategoryDoesNotExist(c) ==
  IF c \in CategoryTypes THEN ErrCategoryMissing(String(c)) ELSE PanicIndexOutOfRange

Debit_ValueReceiver(c, amount) ==
  IF c.Balance.Amount < amount.Amount
    THEN [err |-> ErrInsufficient(c.Type), cat |-> c]
    ELSE [err |-> NoError, cat |-> c]

Credit(c, amount) == [c EXCEPT !.Balance = Add(c.Balance, amount)]

Debit(c, amount) ==
  IF c.Balance.Amount < amount.Amount
    THEN [err |-> ErrInsufficient(c.Type), cat |-> c]
    ELSE [err |-> NoError, cat |-> [c EXCEPT !.Balance = Subtract(c.Balance, amount)]]

\* ---------------------------------------------------------- Transaction
NewTransaction(amount, date) == [Amount |-> amount, Date |-> date]

NewIncome(amount, date) == [Amount |-> amount, Date |-> date]

NewExpense(amount, date) ==
  [Amount |-> [Amount |-> -amount.Amount, Currency |-> amount.Currency], Date |-> date]

\* ----------------------------------------------------------------- User
BankAccountOf(t) ==
  CASE t = "Expense" -> [AccountNumber |-> "EXP123", BankName |-> "Expense Bank"]
    [] t = "Emergency" -> [AccountNumber |-> "EMG123", BankName |-> "Emergency Bank"]
    [] t = "Savings" -> [AccountNumber |-> "SAV123", BankName |-> "Savings Bank"]

NewUser ==
  [t \in CategoryTypes |->
     [Type |-> t, Balance |-> NewMoneyZero("USD"), BankAccount |-> BankAccountOf(t)]]

Snapshot ==
  [Categories |-> Categories, AllocationRules |-> AllocationRules,
   Incomes |-> Incomes, Expenses |-> Expenses]

\* ------------------------------------------- AllocateIncome (src/main.go)
Rules == [CategoryType : CategoryTypes, Percentage : Pcts]

TotalPercentage_SkipLast(rules, i) ==
  LET RECURSIVE sum(_)
      sum(j) == IF j >= Len(rules) THEN 0 ELSE rules[j].Percentage + sum(j + 1)
  IN  sum(i)

RECURSIVE TotalPercentage(_, _)
TotalPercentage(rules, i) ==
  IF i > Len(rules) THEN 0 ELSE rules[i].Percentage + TotalPercentage(rules, i + 1)

RECURSIVE AllocateLoop_CreditIncome(_, _, _, _)
AllocateLoop_CreditIncome(cats, rules, i, income) ==
  IF i > Len(rules)
    THEN [err |-> NoError, cats |-> cats]
    ELSE LET rule == rules[i] IN
         IF rule.CategoryType \notin DOMAIN cats
           THEN [err |-> CategoryDoesNotExist(rule.CategoryType), cats |-> cats]
           ELSE AllocateLoop_CreditIncome(
                  [cats EXCEPT ![rule.CategoryType] = Credit(@, income)],
                  rules, i + 1, income)

RECURSIVE AllocateLoop(_, _, _, _)
AllocateLoop(cats, rules, i, income) ==
  IF i > Len(rules)
    THEN [err |-> NoError, cats |-> cats]
    ELSE LET rule == rules[i] IN
         IF rule.CategoryType \notin DOMAIN cats
           THEN [err |-> CategoryDoesNotExist(rule.CategoryType), cats |-> cats]
           ELSE LET allocationAmount == Mul(income.Amount, rule.Percentage)
                    allocation == [Amount |-> allocationAmount, Currency |-> income.Currency]
                IN  AllocateLoop([cats EXCEPT ![rule.CategoryType] = Credit(@, allocation)],
                                 rules, i + 1, income)

UserAllocateIncome_Prepend(cats, rules, incomes, income, date) ==
  IF Len(rules) < 1
    THEN [err |-> ErrNoAllocation, cats |-> cats, incomes |-> incomes]
  ELSE IF TotalPercentage(rules, 1) > PctDen
    THEN [err |-> ErrPercentage, cats |-> cats, incomes |-> incomes]
  ELSE LET r == AllocateLoop(cats, rules, 1, income) IN
       IF r.err # NoError
         THEN [err |-> r.err, cats |-> r.cats, incomes |-> incomes]
         ELSE [err |-> NoError, cats |-> r.cats,
               incomes |-> <<NewTransaction(income, date)>> \o incomes]

\* the method as a function of the user: the error returned and the user's
\* categories and income log when it returns
UserAllocateIncome(cats, rules, incomes, income, date) ==
  IF Len(rules) < 1
    THEN [err |-> ErrNoAllocation, cats |-> cats, incomes |-> incomes]
  ELSE IF TotalPercentage(rules, 1) > PctDen
    THEN [err |-> ErrPercentage, cats |-> cats, incomes |-> incomes]
  ELSE LET r == AllocateLoop(cats, rules, 1, income) IN
       IF r.err # NoError
         THEN [err |-> r.err, cats |-> r.cats, incomes |-> incomes]
         ELSE [err |-> NoError, cats |-> r.cats,
               incomes |-> Append(incomes, NewTransaction(income, date))]

\* ------------------------------------------- ProcessExpense (src/main.go)
RECURSIVE DeductLoop(_, _, _)
DeductLoop(cats, i, amountToDeduct) ==
  IF i > Len(deductionOrder)
    THEN [err |-> NoError, cats |-> cats, amountToDeduct |-> amountToDeduct]
    ELSE LET categoryType == deductionOrder[i] IN
         IF categoryType \notin DOMAIN cats
           THEN DeductLoop(cats, i + 1, amountToDeduct)
           ELSE LET category == cats[categoryType] IN
                IF category.Balance.Amount >= amountToDeduct.Amount
                  THEN LET d == Debit(category, amountToDeduct) IN
                       IF d.err # NoError
                         THEN [err |-> d.err, cats |-> cats, amountToDeduct |-> amountToDeduct]
                         ELSE [err |-> NoError,
                               cats |-> [cats EXCEPT ![categoryType] = d.cat],
                               amountToDeduct |-> [Amount |-> 0,
                                                   Currency |-> amountToDeduct.Currency]]
                  ELSE LET deductibleAmount == [Amount |-> category.Balance.Amount,
                                                Currency |-> category.Balance.Currency]
                           d == Debit(category, deductibleAmount)
                       IN  IF d.err # NoError
                             THEN [err |-> d.err, cats |-> cats,
                                   amountToDeduct |-> amountToDeduct]
                             ELSE DeductLoop([cats EXCEPT ![categoryType] = d.cat], i + 1,
                                             Subtract(amountToDeduct, deductibleAmount))

UserProcessExpense_LogFirst(cats, expenses, expense) ==
  LET r == DeductLoop(cats, 1, expense.Amount) IN
  IF r.err # NoError
    THEN [err |-> r.err, cats |-> r.cats, expenses |-> expenses]
  ELSE IF r.amountToDeduct.Amount > 0
    THEN [err |-> ErrAcross, cats |-> r.cats, expenses |-> Append(expenses, expense)]
  ELSE [err |-> NoError, cats |-> r.cats, expenses |-> Append(expenses, expense)]

UserProcessExpense(cats, expenses, expense) ==
  LET r == DeductLoop(cats, 1, expense.Amount) IN
  IF r.err # NoError
    THEN [err |-> r.err, cats |-> r.cats, expenses |-> expenses]
  ELSE IF r.amountToDeduct.Amount > 0
    THEN [err |-> ErrAcross, cats |-> r.cats, expenses |-> expenses]
  ELSE [err |-> NoError, cats |-> r.cats, expenses |-> Append(expenses, expense)]

\* ------------------------------------------------- src/unnamed/part_000
\* float64 Money: addition and subtraction round their result to the nearest
\* representable value, ties to the even significand.  The model's floats have a
\* significand of FloatBits bits and the model's amounts are integers, so every
\* amount below 2^FloatBits is exact.
RECURSIVE Quantum(_)
Quantum(x) == IF x < 2 ^ FloatBits THEN 1 ELSE 2 * Quantum(x \div 2)

RoundF(x) ==
  LET a == Abs(x)
      q == Quantum(a)
      lo == (a \div q) * q
      r == a - lo
      nearest == IF 2 * r < q THEN lo
                 ELSE IF 2 * r > q THEN lo + q
                 ELSE IF (a \div q) % 2 = 0 THEN lo ELSE lo + q
  IN  IF x < 0 THEN -nearest ELSE nearest

AddF(m, other) == [Amount |-> RoundF(m.Amount + other.Amount), Currency |-> m.Currency]

SubtractF(m, other) == [Amount |-> RoundF(m.Amount - other.Amount), Currency |-> m.Currency]

CreditF(c, amount) == [c EXCEPT !.Balance = AddF(c.Balance, amount)]

DebitF(c, amount) ==
  IF c.Balance.Amount < amount.Amount
    THEN [err |-> ErrInsufficient(c.Name), cat |-> c]
    ELSE [err |-> NoError, cat |-> [c EXCEPT !.Balance = SubtractF(c.Balance, amount)]]

NewUserF ==
  [n \in CategoryTypes |->
     [Name |-> n, Balance |-> [Amount |-> 0, Currency |-> "USD"], BankAccount |-> ""]]

RulesF ==
  [CategoryName : CategoryTypes, Type : {"FixedAmount"},
   Amount : {NewMoney(a, "USD") : a \in FixedAmounts}, Percentage : {0}]
  \cup
  [CategoryName : CategoryTypes, Type : {"Percentage"},
   Amount : {NewMoney(0, "")}, Percentage : PctsF]

RECURSIVE TotalPercentageF(_, _)
TotalPercentageF(rules, i) ==
  IF i > Len(rules) THEN 0
  ELSE (IF rules[i].Type = "Percentage" THEN rules[i].Percentage ELSE 0)
       + TotalPercentageF(rules, i + 1)

TotalFixedF_NoAccumulate(rules, i, totalFixed) ==
  LET fixed == {j \in i..Len(rules) : rules[j].Type = "FixedAmount"} IN
  IF fixed = {} THEN totalFixed
  ELSE rules[CHOOSE j \in fixed : \A k \in fixed : k <= j].Amount

RECURSIVE TotalFixedF(_, _, _)
TotalFixedF(rules, i, totalFixed) ==
  IF i > Len(rules) THEN totalFixed
  ELSE TotalFixedF(rules, i + 1,
                   IF rules[i].Type = "FixedAmount"
                     THEN AddF(totalFixed, rules[i].Amount) ELSE totalFixed)

RECURSIVE AllocateLoopF(_, _, _, _, _)
AllocateLoopF(cats, rules, i, income, remainingIncome) ==
  IF i > Len(rules)
    THEN [err |-> NoError, cats |-> cats]
    ELSE LET rule == rules[i] IN
         IF rule.CategoryName \notin DOMAIN cats
           THEN [err |-> ErrCategoryMissing(rule.CategoryName), cats |-> cats]
           ELSE LET allocation ==
                      IF rule.Type = "FixedAmount" THEN rule.Amount
                      ELSE IF rule.Type = "Percentage"
                        THEN [Amount |-> Mul(remainingIncome.Amount, rule.Percentage),
                              Currency |-> income.Currency]
                      ELSE [Amount |-> 0, Currency |-> ""]
                IN  AllocateLoopF([cats EXCEPT ![rule.CategoryName] = CreditF(@, allocation)],
                                  rules, i + 1, income, remainingIncome)

UserAllocateIncomeF_Gross(cats, rules, income) ==
  LET totalPercentage == TotalPercentageF(rules, 1)
      totalFixed == TotalFixedF(rules, 1, [Amount |-> 0, Currency |-> income.Currency])
  IN  IF totalPercentage > PctDen
        THEN [err |-> ErrPercentage, cats |-> cats]
      ELSE IF totalFixed.Amount > income.Amount
        THEN [err |-> ErrFixed, cats |-> cats]
      ELSE AllocateLoopF(cats, rules, 1, income, income)

UserAllocateIncomeF(cats, rules, income) ==
  LET totalPercentage == TotalPercentageF(rules, 1)
      totalFixed == TotalFixedF(rules, 1, [Amount |-> 0, Currency |-> income.Currency])
  IN  IF totalPercentage > PctDen
        THEN [err |-> ErrPercentage, cats |-> cats]
      ELSE IF totalFixed.Amount > income.Amount
        THEN [err |-> ErrFixed, cats |-> cats]
      ELSE AllocateLoopF(cats, rules, 1, income, SubtractF(income, totalFixed))

RECURSIVE DeductLoopF(_, _, _)
DeductLoopF(cats, i, amountToDeduct) ==
  IF i > Len(deductionOrder)
    THEN [err |-> NoError, cats |-> cats, amountToDeduct |-> amountToDeduct]
    ELSE LET categoryName == deductionOrder[i] IN
         IF categoryName \notin DOMAIN cats
           THEN DeductLoopF(cats, i + 1, amountToDeduct)
           ELSE LET category == cats[categoryName] IN
                IF category.Balance.Amount >= amountToDeduct.Amount
                  THEN LET d == DebitF(category, amountToDeduct) IN
                       IF d.err # NoError
                         THEN [err |-> d.err, cats |-> cats, amountToDeduct |-> amountToDeduct]
                         ELSE [err |-> NoError,
                               cats |-> [cats EXCEPT ![categoryName] = d.cat],
                               amountToDeduct |-> [Amount |-> 0,
                                                   Currency |-> amountToDeduct.Currency]]
                  ELSE LET deductableAmount == [Amount |-> category.Balance.Amount,
                                                Currency |-> category.Balance.Currency]
                           d == DebitF(category, deductableAmount)
                       IN  IF d.err # NoError
                             THEN [err |-> d.err, cats |-> cats,
                                   amountToDeduct |-> amountToDeduct]
                             ELSE DeductLoopF([cats EXCEPT ![categoryName] = d.cat], i + 1,
                                              SubtractF(amountToDeduct, deductableAmount))

UserProcessExpenseF(cats, expense) ==
  LET r == DeductLoopF(cats, 1, expense.Amount) IN
  IF r.err # NoError THEN [err |-> r.err, cats |-> r.cats]
  ELSE IF r.amountToDeduct.Amount > 0 THEN [err |-> ErrAcross, cats |-> r.cats]
  ELSE [err |-> NoError, cats |-> r.cats]

\* ---------------------------------------------------------------- actions
Usd(a) == [Amount |-> a, Currency |-> "USD"]

RuleLists == UNION {[1..n -> Rules] : n \in 1..MaxRules}

RuleListsF == UNION {[1..n -> RulesF] : n \in 1..MaxRules}

\* the store: data maps a user ID to a pointer to a user, mu is the RWMutex
NewInMemoryUserRepository == [data |-> <<>>, mu |-> [readers |-> {}, writer |-> 0]]

Init ==
  /\ program \in {"main", "part0"}
  /\ Categories = (IF program = "main" THEN NewUser ELSE NewUserF)
  /\ AllocationRules = <<>>
  /\ Incomes = <<>>
  /\ Expenses = <<>>
  /\ calls = 0
  /\ last = [op |-> "NewUser"]
  /\ heap = <<>>
  /\ repo = NewInMemoryUserRepository
  /\ procs = <<>>

\* user.AllocationRules = ... : the driver assigns the rules of a new user once,
\* before the first call
SetRules ==
  /\ program = "main"
  /\ calls = 0
  /\ AllocationRules = <<>>
  /\ \E rules \in RuleLists : AllocationRules' = rules
  /\ last' = [op |-> "SetRules"]
  /\ UNCHANGED <<program, Categories, Incomes, Expenses, calls, heap, repo, procs>>

AllocateIncome(income, date) ==
  /\ program = "main"
  /\ calls < MaxCalls
  /\ LET r == UserAllocateIncome(Categories, AllocationRules, Incomes, income, date) IN
     /\ Categories' = r.cats
     /\ Incomes' = r.incomes
     /\ last' = [op |-> "AllocateIncome", income |-> income, date |-> date,
                 err |-> r.err, pre |-> Snapshot]
  /\ calls' = calls + 1
  /\ UNCHANGED <<program, AllocationRules, Expenses, heap, repo, procs>>

ProcessExpense(expense) ==
  /\ program = "main"
  /\ calls < MaxCalls
  /\ LET r == UserProcessExpense(Categories, Expenses, expense) IN
     /\ Categories' = r.cats
     /\ Expenses' = r.expenses
     /\ last' = [op |-> "ProcessExpense", expense |-> expense,
                 err |-> r.err, pre |-> Snapshot]
  /\ calls' = calls + 1
  /\ UNCHANGED <<program, AllocationRules, Incomes, heap, repo, procs>>

SetRulesF ==
  /\ program = "part0"
  /\ calls = 0
  /\ AllocationRules = <<>>
  /\ \E rules \in RuleListsF : AllocationRules' = rules
  /\ last' = [op |-> "SetRules"]
  /\ UNCHANGED <<program, Categories, Incomes, Expenses, calls, heap, repo, procs>>

AllocateIncomeF(income) ==
  /\ program = "part0"
  /\ calls < MaxCalls
  /\ LET r == UserAllocateIncomeF(Categories, AllocationRules, income) IN
     /\ Categories' = r.cats
     /\ last' = [op |-> "AllocateIncome", income |-> income,
                 err |-> r.err, pre |-> Snapshot]
  /\ calls' = calls + 1
  /\ UNCHANGED <<program, AllocationRules, Incomes, Expenses, heap, repo, procs>>

ProcessExpenseF(expense) ==
  /\ program = "part0"
  /\ calls < MaxCalls
  /\ LET r == UserProcessExpenseF(Categories, expense) IN
     /\ Categories' = r.cats
     /\ last' = [op |-> "ProcessExpense", expense |-> expense,
                 err |-> r.err, pre |-> Snapshot]
  /\ calls' = calls + 1
  /\ UNCHANGED <<program, AllocationRules, Incomes, Expenses, heap, repo, procs>>

Next ==
  \/ SetRules
  \/ \E a \in IncomeAmounts, d \in Dates : AllocateIncome(Usd(a), d)
  \/ \E a \in ExpenseAmounts, d \in Dates : ProcessExpense(NewTransaction(Usd(a), d))
  \/ \E a \in ExpenseAmounts, d \in Dates : ProcessExpense(NewExpense(Usd(a), d))
  \/ SetRulesF
  \/ \E a \in IncomeAmountsF : AllocateIncomeF(Usd(a))
  \/ \E a \in ExpenseAmounts, d \in Dates : ProcessExpenseF(NewTransaction(Usd(a), d))

Spec == Init /\ [][Next]_vars

\* ------------------------------------- Category.Credit and Category.Debit
\* called directly on a category of the user (src/main.go)
CreditCategory(t, amount) ==
  /\ program = "main"
  /\ calls < MaxCalls
  /\ Categories' = [Categories EXCEPT ![t] = Credit(@, amount)]
  /\ last' = [op |-> "Credit", category |-> t, amount |-> amount,
              err |-> NoError, pre |-> Snapshot]
  /\ calls' = calls + 1
  /\ UNCHANGED <<program, AllocationRules, Incomes, Expenses, heap, repo, procs>>

DebitCategory(t, amount) ==
  /\ program = "main"
  /\ calls < MaxCalls
  /\ LET d == Debit(Categories[t], amount) IN
     /\ Categories' = [Categories EXCEPT ![t] = d.cat]
     /\ last' = [op |-> "Debit", category |-> t, amount |-> amount,
                 err |-> d.err, pre |-> Snapshot]
  /\ calls' = calls + 1
  /\ UNCHANGED <<program, AllocationRules, Incomes, Expenses, heap, repo, procs>>

InitCategory == Init /\ program = "main"

NextCategory ==
  \/ \E t \in CategoryTypes, a \in DirectAmounts : CreditCategory(t, Usd(a))
  \/ \E t \in CategoryTypes, a \in DirectAmounts : DebitCategory(t, Usd(a))

SpecCategory == InitCategory /\ [][NextCategory]_vars

\* ------------------------------------------- Period and the queries (src/main.go)
Contains_Exclusive(period, date) == date > period.StartDate /\ date < period.EndDate

\* dates are day numbers; Before and After are < and >
Contains(period, date) == ~(date < period.StartDate) /\ ~(date > period.EndDate)

\* one loop of GetPeriodSummary over a log, from entry i on
RECURSIVE PeriodLoop(_, _, _, _, _)
PeriodLoop(log, i, period, total, inPeriod) ==
  IF i > Len(log)
    THEN [total |-> total, inPeriod |-> inPeriod]
    ELSE IF Contains(period, log[i].Date)
      THEN PeriodLoop(log, i + 1, period, Add(total, log[i].Amount), Append(inPeriod, log[i]))
      ELSE PeriodLoop(log, i + 1, period, total, inPeriod)

UserGetPeriodSummary_InPlace(u, period) ==
  LET e == PeriodLoop(u.Expenses, 1, period, NewMoneyZero("USD"), <<>>)
      i == PeriodLoop(u.Incomes, 1, period, NewMoneyZero("USD"), <<>>)
  IN  [totalExpense |-> e.total, expensesInPeriod |-> e.inPeriod,
       totalIncome |-> i.total, incomesInPeriod |-> i.inPeriod,
       user |-> [u EXCEPT !.Expenses = e.inPeriod, !.Incomes = i.inPeriod]]

\* the method as a function of the user: the four values returned and the user
\* when it returns
UserGetPeriodSummary(u, period) ==
  LET e == PeriodLoop(u.Expenses, 1, period, NewMoneyZero("USD"), <<>>)
      i == PeriodLoop(u.Incomes, 1, period, NewMoneyZero("USD"), <<>>)
  IN  [totalExpense |-> e.total, expensesInPeriod |-> e.inPeriod,
       totalIncome |-> i.total, incomesInPeriod |-> i.inPeriod,
       user |-> u]

\* a status text is the sequence of the pieces it is concatenated from
MsgCovers == <<"Your income covers your expenses.">>

MsgExceed == <<"Your expenses exceed your income.">>

Warning(emergencyUsed, savingsUsed) ==
  <<"Warning: You have used ">>
  \o (IF emergencyUsed THEN <<"Emergency funds ">> ELSE <<>>)
  \o (IF savingsUsed
        THEN (IF emergencyUsed THEN <<"and ">> ELSE <<>>) \o <<"Savings funds ">>
        ELSE <<>>)
  \o <<"to cover your expenses. Consider adjusting your lifestyle or increasing your income.">>

UserCheckIncomeStatus(u, period) ==
  LET s == UserGetPeriodSummary(u, period)
      emergencyUsed == 0 - s.user.Categories["Emergency"].Balance.Amount > 0
      savingsUsed == 0 - s.user.Categories["Savings"].Balance.Amount > 0
  IN  IF emergencyUsed \/ savingsUsed
        THEN [status |-> Warning(emergencyUsed, savingsUsed), err |-> NoError, user |-> s.user]
      ELSE IF s.totalIncome.Amount >= s.totalExpense.Amount
        THEN [status |-> MsgCovers, err |-> NoError, user |-> s.user]
      ELSE [status |-> MsgExceed, err |-> NoError, user |-> s.user]

\* ------------------------------------ ProcessAccountStatement (src/main.go)
ErrNoCategoryForAccount(account) == <<"no category associated with bank account", account>>

RECURSIVE StatementLoop_SkipFailed(_, _, _, _)
StatementLoop_SkipFailed(cats, expenses, list, i) ==
  IF i > Len(list)
    THEN [err |-> NoError, cats |-> cats, expenses |-> expenses]
    ELSE LET r == UserProcessExpense(cats, expenses, list[i])
             rest == StatementLoop_SkipFailed(r.cats, r.expenses, list, i + 1)
         IN  IF r.err # NoError THEN [rest EXCEPT !.err = r.err] ELSE rest

\* the loop over the expenses of a statement, from expense i on
RECURSIVE StatementLoop(_, _, _, _)
StatementLoop(cats, expenses, list, i) ==
  IF i > Len(list)
    THEN [err |-> NoError, cats |-> cats, expenses |-> expenses]
    ELSE LET r == UserProcessExpense(cats, expenses, list[i]) IN
         IF r.err # NoError
           THEN r
           ELSE StatementLoop(r.cats, r.expenses, list, i + 1)

UserProcessAccountStatement_NoLookup(cats, expenses, statement) ==
  StatementLoop(cats, expenses, statement.Expenses, 1)

UserProcessAccountStatement(cats, expenses, statement) ==
  IF ~ \E t \in DOMAIN cats :
         /\ cats[t].BankAccount.AccountNumber = statement.BankAccount.AccountNumber
         /\ cats[t].BankAccount.BankName = statement.BankAccount.BankName
    THEN [err |-> ErrNoCategoryForAccount(statement.BankAccount),
          cats |-> cats, expenses |-> expenses]
    ELSE StatementLoop(cats, expenses, statement.Expenses, 1)

\* --------------------------- ProcessAccountStatement (src/unnamed/part_000)
RECURSIVE StatementLoopF(_, _, _)
StatementLoopF(cats, list, i) ==
  IF i > Len(list)
    THEN [err |-> NoError, cats |-> cats]
    ELSE LET r == UserProcessExpenseF(cats, list[i]) IN
         IF r.err # NoError THEN r ELSE StatementLoopF(r.cats, list, i + 1)

UserProcessAccountStatementF(cats, statement) ==
  IF ~ \E n \in DOMAIN cats : cats[n].BankAccount = statement.BankAccountID
    THEN [err |-> ErrNoCategoryForAccount(statement.BankAccountID), cats |-> cats]
    ELSE StatementLoopF(cats, statement.Expenses, 1)

\* ------------------------------------------------ the ledger with its queries
LedgerDates == {1, 2, 3}

Periods == {[StartDate |-> 1, EndDate |-> 2], [StartDate |-> 2, EndDate |-> 3]}

LedgerIncomes == {2 * PctDen}

LedgerRules ==
  <<[CategoryType |-> "Expense", Percentage |-> PctDen \div 2],
    [CategoryType |-> "Emergency", Percentage |-> PctDen \div 4],
    [CategoryType |-> "Savings", Percentage |-> PctDen \div 4]>>

LedgerRulesF ==
  <<[CategoryName |-> "Savings", Type |-> "Percentage",
     Amount |-> NewMoney(0, ""), Percentage |-> PctDen \div 4],
    [CategoryName |-> "Emergency", Type |-> "Percentage",
     Amount |-> NewMoney(0, ""), Percentage |-> PctDen \div 4],
    [CategoryName |-> "Expense", Type |-> "Percentage",
     Amount |-> NewMoney(0, ""), Percentage |-> PctDen \div 2]>>

LedgerExpenses ==
  {NewTransaction(Usd(2 * PctDen - 1), d) : d \in LedgerDates}
  \cup {NewExpense(Usd(2 * PctDen - 1), d) : d \in LedgerDates}

\* the expenses of a statement: a batch whose second expense cannot be covered
\* after an income of 2 * PctDen, and a batch that starts with a NewExpense
ExpenseLists ==
  {<<NewTransaction(Usd(3), 1), NewTransaction(Usd(2 * PctDen - 1), 2),
     NewTransaction(Usd(0), 3)>>,
   <<NewExpense(Usd(3), 2), NewTransaction(Usd(3), 3)>>}

BankAccounts ==
  {BankAccountOf("Expense"), BankAccountOf("Savings"),
   [AccountNumber |-> "EXP123", BankName |-> "Savings Bank"],
   [AccountNumber |-> "XXX000", BankName |-> "Expense Bank"]}

Statements == [BankAccount : BankAccounts, Expenses : ExpenseLists]

StatementsF == [BankAccountID : {"", "EXP123"}, Expenses : ExpenseLists]

QueryOps == {"GetPeriodSummary", "CheckIncomeStatus"}

\* the previous call, kept with the result of a query
Before == IF last.op \in QueryOps
            THEN [op |-> last.op, period |-> last.period, result |-> last.result]
            ELSE last

SetLedgerRules ==
  /\ calls = 0
  /\ AllocationRules = <<>>
  /\ AllocationRules' = (IF program = "main" THEN LedgerRules ELSE LedgerRulesF)
  /\ last' = [op |-> "SetRules"]
  /\ UNCHANGED <<program, Categories, Incomes, Expenses, calls, heap, repo, procs>>

ProcessAccountStatement(statement) ==
  /\ program = "main"
  /\ calls < MaxCalls
  /\ LET r == UserProcessAccountStatement(Categories, Expenses, statement) IN
     /\ Categories' = r.cats
     /\ Expenses' = r.expenses
     /\ last' = [op |-> "ProcessAccountStatement", statement |-> statement,
                 err |-> r.err, pre |-> Snapshot]
  /\ calls' = calls + 1
  /\ UNCHANGED <<program, AllocationRules, Incomes, heap, repo, procs>>

ProcessAccountStatementF(statement) ==
  /\ program = "part0"
  /\ calls < MaxCalls
  /\ LET r == UserProcessAccountStatementF(Categories, statement) IN
     /\ Categories' = r.cats
     /\ last' = [op |-> "ProcessAccountStatement", statement |-> statement,
                 err |-> r.err, pre |-> Snapshot]
  /\ calls' = calls + 1
  /\ UNCHANGED <<program, AllocationRules, Incomes, Expenses, heap, repo, procs>>

GetPeriodSummary(period) ==
  /\ program = "main"
  /\ calls < MaxCalls
  /\ LET r == UserGetPeriodSummary(Snapshot, period) IN
     /\ Categories' = r.user.Categories
     /\ AllocationRules' = r.user.AllocationRules
     /\ Incomes' = r.user.Incomes
     /\ Expenses' = r.user.Expenses
     /\ last' = [op |-> "GetPeriodSummary", period |-> period,
                 result |-> [totalExpense |-> r.totalExpense,
                             expensesInPeriod |-> r.expensesInPeriod,
                             totalIncome |-> r.totalIncome,
                             incomesInPeriod |-> r.incomesInPeriod],
                 err |-> NoError, pre |-> Snapshot, before |-> Before]
  /\ calls' = calls + 1
  /\ UNCHANGED <<program, heap, repo, procs>>

CheckIncomeStatus(period) ==
  /\ program = "main"
  /\ calls < MaxCalls
  /\ LET r == UserCheckIncomeStatus(Snapshot, period) IN
     /\ Categories' = r.user.Categories
     /\ AllocationRules' = r.user.AllocationRules
     /\ Incomes' = r.user.Incomes
     /\ Expenses' = r.user.Expenses
     /\ last' = [op |-> "CheckIncomeStatus", period |-> period, result |-> r.status,
                 err |-> r.err, pre |-> Snapshot, before |-> Before]
  /\ calls' = calls + 1
  /\ UNCHANGED <<program, heap, repo, procs>>

NextLedger ==
  \/ SetLedgerRules
  \/ \E a \in LedgerIncomes, d \in LedgerDates : AllocateIncome(Usd(a), d)
  \/ \E e \in LedgerExpenses : ProcessExpense(e)
  \/ \E s \in Statements : ProcessAccountStatement(s)
  \/ \E p \in Periods : GetPeriodSummary(p)
  \/ \E p \in Periods : CheckIncomeStatus(p)
  \/ \E a \in LedgerIncomes : AllocateIncomeF(Usd(a))
  \/ \E d \in LedgerDates : ProcessExpenseF(NewTransaction(Usd(2 * PctDen - 1), d))
  \/ \E s \in StatementsF : ProcessAccountStatementF(s)

SpecLedger == Init /\ [][NextLedger]_vars

\* --------------------------- InMemoryUserRepository and FinanceService (src/main.go)
\* a pointer is the index of a user in heap; 0 is nil
ErrUserNotFound == <<"user not found">>

UserIDs == {"user123", "user999"}

\* NewUser(id), allocated at the next free address of the heap
AllocUser(h, id) ==
  Append(h, [ID |-> id, Categories |-> NewUser, AllocationRules |-> <<>>,
             Incomes |-> <<>>, Expenses |-> <<>>])

GetByID(r, id) ==
  IF id \in DOMAIN r.data
    THEN [user |-> r.data[id], err |-> NoError]
    ELSE [user |-> 0, err |-> ErrUserNotFound]

Save(h, r, user) == [r EXCEPT !.data = (h[user].ID :> user) @@ r.data]

\* the service methods as functions of the heap and the store: the error
\* returned, the heap and the store when the method returns, and whether Save
\* was called
ServiceAllocateIncome(h, r, userID, income, now) ==
  LET g == GetByID(r, userID) IN
  IF g.err # NoError
    THEN [err |-> g.err, heap |-> h, repo |-> r, saved |-> FALSE]
    ELSE LET u == h[g.user]
             d == UserAllocateIncome(u.Categories, u.AllocationRules, u.Incomes, income, now)
             h1 == [h EXCEPT ![g.user] = [u EXCEPT !.Categories = d.cats,
                                                   !.Incomes = d.incomes]]
         IN  IF d.err # NoError
               THEN [err |-> d.err, heap |-> h1, repo |-> r, saved |-> FALSE]
               ELSE [err |-> NoError, heap |-> h1, repo |-> Save(h1, r, g.user),
                     saved |-> TRUE]

ServiceProcessAccountStatement_OnCopy(h, r, userID, statement) ==
  LET g == GetByID(r, userID) IN
  IF g.err # NoError
    THEN [err |-> g.err, heap |-> h, repo |-> r, saved |-> FALSE]
    ELSE LET u == h[g.user]
             d == UserProcessAccountStatement(u.Categories, u.Expenses, statement)
             h1 == [h EXCEPT ![g.user] = [u EXCEPT !.Categories = d.cats,
                                                   !.Expenses = d.expenses]]
         IN  IF d.err # NoError
               THEN [err |-> d.err, heap |-> h, repo |-> r, saved |-> FALSE]
               ELSE [err |-> NoError, heap |-> h1, repo |-> Save(h1, r, g.user),
                     saved |-> TRUE]

ServiceProcessAccountStatement(h, r, userID, statement) ==
  LET g == GetByID(r, userID) IN
  IF g.err # NoError
    THEN [err |-> g.err, heap |-> h, repo |-> r, saved |-> FALSE]
    ELSE LET u == h[g.user]
             d == UserProcessAccountStatement(u.Categories, u.Expenses, statement)
             h1 == [h EXCEPT ![g.user] = [u EXCEPT !.Categories = d.cats,
                                                   !.Expenses = d.expenses]]
         IN  IF d.err # NoError
               THEN [err |-> d.err, heap |-> h1, repo |-> r, saved |-> FALSE]
               ELSE [err |-> NoError, heap |-> h1, repo |-> Save(h1, r, g.user),
                     saved |-> TRUE]

\* rule lists the driver gives the stored user: the driver's split, and a split
\* whose percentages sum to more than 100%
StoredRuleLists ==
  {LedgerRules,
   <<[CategoryType |-> "Expense", Percentage |-> PctDen \div 2],
     [CategoryType |-> "Emergency", Percentage |-> PctDen \div 2],
     [CategoryType |-> "Savings", Percentage |-> PctDen \div 4]>>}

Stored == [heap |-> heap, repo |-> repo]

\* user := NewUser("user123"); repo.Save(user)
SaveNewUser ==
  /\ "user123" \notin DOMAIN repo.data
  /\ procs = <<>>
  /\ heap' = AllocUser(heap, "user123")
  /\ repo' = Save(heap', repo, Len(heap'))
  /\ last' = [op |-> "Save"]
  /\ UNCHANGED <<program, Categories, AllocationRules, Incomes, Expenses, calls, procs>>

\* user.AllocationRules = ... : assigned through the pointer that was saved
SetStoredRules ==
  /\ "user123" \in DOMAIN repo.data
  /\ procs = <<>>
  /\ calls = 0
  /\ heap[repo.data["user123"]].AllocationRules = <<>>
  /\ \E rules \in StoredRuleLists :
       heap' = [heap EXCEPT ![repo.data["user123"]].AllocationRules = rules]
  /\ last' = [op |-> "SetRules"]
  /\ UNCHANGED <<program, Categories, AllocationRules, Incomes, Expenses, calls, repo, procs>>

FinanceServiceAllocateIncome(userID, income, now) ==
  /\ calls < MaxCalls
  /\ procs = <<>>
  /\ LET r == ServiceAllocateIncome(heap, repo, userID, income, now) IN
     /\ heap' = r.heap
     /\ repo' = r.repo
     /\ last' = [op |-> "FinanceService.AllocateIncome", userID |-> userID,
                 income |-> income, err |-> r.err, saved |-> r.saved, pre |-> Stored]
  /\ calls' = calls + 1
  /\ UNCHANGED <<program, Categories, AllocationRules, Incomes, Expenses, procs>>

FinanceServiceProcessAccountStatement(userID, statement) ==
  /\ calls < MaxCalls
  /\ procs = <<>>
  /\ LET r == ServiceProcessAccountStatement(heap, repo, userID, statement) IN
     /\ heap' = r.heap
     /\ repo' = r.repo
     /\ last' = [op |-> "FinanceService.ProcessAccountStatement", userID |-> userID,
                 statement |-> statement, err |-> r.err, saved |-> r.saved,
                 pre |-> Stored]
  /\ calls' = calls + 1
  /\ UNCHANGED <<program, Categories, AllocationRules, Incomes, Expenses, procs>>

InitService == Init /\ program = "main"

NextService ==
  \/ SaveNewUser
  \/ SetStoredRules
  \/ \E id \in UserIDs, a \in LedgerIncomes, d \in LedgerDates :
       FinanceServiceAllocateIncome(id, Usd(a), d)
  \/ \E id \in UserIDs, s \in Statements : FinanceServiceProcessAccountStatement(id, s)

SpecService == InitService /\ [][NextService]_vars

\* ------------------------------- two service calls on one user, run concurrently
\* Each call is a process that takes one step per access to the store or to a
\* field of the user; procs[p] holds the call's arguments, its position pc and
\* its local variables.
Procs == {1, 2}

NoStatement == [BankAccount |-> [AccountNumber |-> "", BankName |-> ""], Expenses |-> <<>>]

AllocateOp(a, d) ==
  [op |-> "AllocateIncome", income |-> Usd(a), now |-> d, statement |-> NoStatement]

StatementOp(s) ==
  [op |-> "ProcessAccountStatement", income |-> Usd(0), now |-> 0, statement |-> s]

ConcurrentOps ==
  {AllocateOp(a, 1) : a \in LedgerIncomes}
  \cup {StatementOp([BankAccount |-> BankAccountOf("Expense"),
                     Expenses |-> <<NewTransaction(Usd(2 * PctDen - 1), 2)>>])}

StartProc(o) ==
  [op |-> o.op, income |-> o.income, now |-> o.now, statement |-> o.statement,
   pc |-> "GetByID.RLock", user |-> 0, i |-> 1, j |-> 1,
   amountToDeduct |-> Usd(0), amount |-> Usd(0), full |-> FALSE,
   bal |-> Usd(0), log |-> <<>>, err |-> NoError]

At(p, pc) == procs # <<>> /\ procs[p].pc = pc

Return(p, err) == procs' = [procs EXCEPT ![p].pc = "done", ![p].err = err]

\* the user the process works on, and the category its loop is at
UserOf(p) == heap[procs[p].user]

RuleOf(p) == UserOf(p).AllocationRules[procs[p].i]

DeductFrom(p) == deductionOrder[procs[p].j]

\* go s.AllocateIncome(...) / go s.ProcessAccountStatement(...), twice
Go(o1, o2) ==
  /\ procs = <<>>
  /\ calls < MaxCalls
  /\ procs' = <<StartProc(o1), StartProc(o2)>>
  /\ last' = [op |-> "go", ops |-> <<o1, o2>>, pre |-> Stored]
  /\ calls' = calls + 1
  /\ UNCHANGED <<program, Categories, AllocationRules, Incomes, Expenses, heap, repo>>

StepRLock(p) ==
  /\ At(p, "GetByID.RLock")
  /\ repo.mu.writer = 0
  /\ repo' = [repo EXCEPT !.mu.readers = @ \cup {p}]
  /\ procs' = [procs EXCEPT ![p].pc = "GetByID.read"]
  /\ UNCHANGED <<program, Categories, AllocationRules, Incomes, Expenses, calls, last, heap>>

StepGetByID(p) ==
  /\ At(p, "GetByID.read")
  /\ LET g == GetByID(repo, "user123") IN
     IF g.err # NoError
       THEN Return(p, g.err)
       ELSE procs' = [procs EXCEPT
                        ![p].user = g.user,
                        ![p].pc = IF procs[p].op = "AllocateIncome"
                                    THEN "AllocateIncome.check" ELSE "Statement.find"]
  /\ repo' = [repo EXCEPT !.mu.readers = @ \ {p}]
  /\ UNCHANGED <<program, Categories, AllocationRules, Incomes, Expenses, calls, last, heap>>

StepAllocateCheck(p) ==
  /\ At(p, "AllocateIncome.check")
  /\ IF Len(UserOf(p).AllocationRules) < 1
       THEN Return(p, ErrNoAllocation)
     ELSE IF TotalPercentage(UserOf(p).AllocationRules, 1) > PctDen
       THEN Return(p, ErrPercentage)
     ELSE procs' = [procs EXCEPT ![p].i = 1, ![p].pc = "Credit.read"]
  /\ UNCHANGED <<program, Categories, AllocationRules, Incomes, Expenses, calls, last,
                 heap, repo>>

StepCreditRead(p) ==
  /\ At(p, "Credit.read")
  /\ IF RuleOf(p).CategoryType \notin DOMAIN UserOf(p).Categories
       THEN Return(p, CategoryDoesNotExist(RuleOf(p).CategoryType))
       ELSE procs' = [procs EXCEPT
                        ![p].bal = UserOf(p).Categories[RuleOf(p).CategoryType].Balance,
                        ![p].pc = "Credit.write"]
  /\ UNCHANGED <<program, Categories, AllocationRules, Incomes, Expenses, calls, last,
                 heap, repo>>

StepCreditWrite(p) ==
  /\ At(p, "Credit.write")
  /\ LET allocation == [Amount |-> Mul(procs[p].income.Amount, RuleOf(p).Percentage),
                        Currency |-> procs[p].income.Currency]
     IN  heap' = [heap EXCEPT ![procs[p].user].Categories[RuleOf(p).CategoryType].Balance =
                                Add(procs[p].bal, allocation)]
  /\ procs' = [procs EXCEPT
                 ![p].i = @ + 1,
                 ![p].pc = IF procs[p].i + 1 > Len(UserOf(p).AllocationRules)
                             THEN "Incomes.read" ELSE "Credit.read"]
  /\ UNCHANGED <<program, Categories, AllocationRules, Incomes, Expenses, calls, last, repo>>

StepIncomesRead(p) ==
  /\ At(p, "Incomes.read")
  /\ procs' = [procs EXCEPT ![p].log = UserOf(p).Incomes, ![p].pc = "Incomes.write"]
  /\ UNCHANGED <<program, Categories, AllocationRules, Incomes, Expenses, calls, last,
                 heap, repo>>

StepIncomesWrite(p) ==
  /\ At(p, "Incomes.write")
  /\ heap' = [heap EXCEPT ![procs[p].user].Incomes =
                Append(procs[p].log, NewTransaction(procs[p].income, procs[p].now))]
  /\ procs' = [procs EXCEPT ![p].pc = "Save.Lock"]
  /\ UNCHANGED <<program, Categories, AllocationRules, Incomes, Expenses, calls, last, repo>>

StepStatementFind(p) ==
  /\ At(p, "Statement.find")
  /\ IF ~ \E t \in DOMAIN UserOf(p).Categories :
            UserOf(p).Categories[t].BankAccount = procs[p].statement.BankAccount
       THEN Return(p, ErrNoCategoryForAccount(procs[p].statement.BankAccount))
       ELSE procs' = [procs EXCEPT ![p].i = 1, ![p].pc = "Expense.start"]
  /\ UNCHANGED <<program, Categories, AllocationRules, Incomes, Expenses, calls, last,
                 heap, repo>>

StepExpenseStart(p) ==
  /\ At(p, "Expense.start")
  /\ IF procs[p].i > Len(procs[p].statement.Expenses)
       THEN procs' = [procs EXCEPT ![p].pc = "Save.Lock"]
       ELSE procs' = [procs EXCEPT
                        ![p].amountToDeduct = procs[p].statement.Expenses[procs[p].i].Amount,
                        ![p].j = 1,
                        ![p].pc = "Deduct.compare"]
  /\ UNCHANGED <<program, Categories, AllocationRules, Incomes, Expenses, calls, last,
                 heap, repo>>

StepDeductCompare(p) ==
  /\ At(p, "Deduct.compare")
  /\ IF procs[p].j > Len(deductionOrder)
       THEN procs' = [procs EXCEPT ![p].pc = "Expense.end"]
     ELSE IF UserOf(p).Categories[DeductFrom(p)].Balance.Amount
               >= procs[p].amountToDeduct.Amount
       THEN procs' = [procs EXCEPT ![p].amount = procs[p].amountToDeduct,
                                   ![p].full = TRUE,
                                   ![p].pc = "Debit.check"]
     ELSE procs' = [procs EXCEPT ![p].pc = "Deduct.deductible"]
  /\ UNCHANGED <<program, Categories, AllocationRules, Incomes, Expenses, calls, last,
                 heap, repo>>

StepDeductDeductible(p) ==
  /\ At(p, "Deduct.deductible")
  /\ procs' = [procs EXCEPT ![p].amount = UserOf(p).Categories[DeductFrom(p)].Balance,
                            ![p].full = FALSE,
                            ![p].pc = "Debit.check"]
  /\ UNCHANGED <<program, Categories, AllocationRules, Incomes, Expenses, calls, last,
                 heap, repo>>

StepDebitCheck(p) ==
  /\ At(p, "Debit.check")
  /\ IF UserOf(p).Categories[DeductFrom(p)].Balance.Amount < procs[p].amount.Amount
       THEN Return(p, ErrInsufficient(DeductFrom(p)))
       ELSE procs' = [procs EXCEPT ![p].pc = "Debit.read"]
  /\ UNCHANGED <<program, Categories, AllocationRules, Incomes, Expenses, calls, last,
                 heap, repo>>

StepDebitRead(p) ==
  /\ At(p, "Debit.read")
  /\ procs' = [procs EXCEPT ![p].bal = UserOf(p).Categories[DeductFrom(p)].Balance,
                            ![p].pc = "Debit.write"]
  /\ UNCHANGED <<program, Categories, AllocationRules, Incomes, Expenses, calls, last,
                 heap, repo>>

StepDebitWrite(p) ==
  /\ At(p, "Debit.write")
  /\ heap' = [heap EXCEPT ![procs[p].user].Categories[DeductFrom(p)].Balance =
                Subtract(procs[p].bal, procs[p].amount)]
  /\ IF procs[p].full
       THEN procs' = [procs EXCEPT
                        ![p].amountToDeduct = NewMoneyZero(procs[p].amountToDeduct.Currency),
                        ![p].pc = "Expense.end"]
       ELSE procs' = [procs EXCEPT
                        ![p].amountToDeduct = Subtract(procs[p].amountToDeduct, procs[p].amount),
                        ![p].j = @ + 1,
                        ![p].pc = "Deduct.compare"]
  /\ UNCHANGED <<program, Categories, AllocationRules, Incomes, Expenses, calls, last, repo>>

StepExpenseEnd(p) ==
  /\ At(p, "Expense.end")
  /\ IF procs[p].amountToDeduct.Amount > 0
       THEN Return(p, ErrAcross)
       ELSE procs' = [procs EXCEPT ![p].pc = "Expenses.read"]
  /\ UNCHANGED <<program, Categories, AllocationRules, Incomes, Expenses, calls, last,
                 heap, repo>>

StepExpensesRead(p) ==
  /\ At(p, "Expenses.read")
  /\ procs' = [procs EXCEPT ![p].log = UserOf(p).Expenses, ![p].pc = "Expenses.write"]
  /\ UNCHANGED <<program, Categories, AllocationRules, Incomes, Expenses, calls, last,
                 heap, repo>>

StepExpensesWrite(p) ==
  /\ At(p, "Expenses.write")
  /\ heap' = [heap EXCEPT ![procs[p].user].Expenses =
                Append(procs[p].log, procs[p].statement.Expenses[procs[p].i])]
  /\ procs' = [procs EXCEPT ![p].i = @ + 1, ![p].pc = "Expense.start"]
  /\ UNCHANGED <<program, Categories, AllocationRules, Incomes, Expenses, calls, last, repo>>

StepSaveLock(p) ==
  /\ At(p, "Save.Lock")
  /\ repo.mu.writer = 0
  /\ repo.mu.readers = {}
  /\ repo' = [repo EXCEPT !.mu.writer = p]
  /\ procs' = [procs EXCEPT ![p].pc = "Save.write"]
  /\ UNCHANGED <<program, Categories, AllocationRules, Incomes, Expenses, calls, last, heap>>

StepSaveWrite(p) ==
  /\ At(p, "Save.write")
  /\ repo' = [Save(heap, repo, procs[p].user) EXCEPT !.mu.writer = 0]
  /\ Return(p, NoError)
  /\ UNCHANGED <<program, Categories, AllocationRules, Incomes, Expenses, calls, last, heap>>

NextConcurrent ==
  \/ SaveNewUser
  \/ SetStoredRules
  \/ \E a \in LedgerIncomes, d \in LedgerDates :
       FinanceServiceAllocateIncome("user123", Usd(a), d)
  \/ \E o1, o2 \in ConcurrentOps : Go(o1, o2)
  \/ \E p \in Procs : StepRLock(p)
  \/ \E p \in Procs : StepGetByID(p)
  \/ \E p \in Procs : StepAllocateCheck(p)
  \/ \E p \in Procs : StepCreditRead(p)
  \/ \E p \in Procs : StepCreditWrite(p)
  \/ \E p \in Procs : StepIncomesRead(p)
  \/ \E p \in Procs : StepIncomesWrite(p)
  \/ \E p \in Procs : StepStatementFind(p)
  \/ \E p \in Procs : StepExpenseStart(p)
  \/ \E p \in Procs : StepDeductCompare(p)
  \/ \E p \in Procs : StepDeductDeductible(p)
  \/ \E p \in Procs : StepDebitCheck(p)
  \/ \E p \in Procs : StepDebitRead(p)
  \/ \E p \in Procs : StepDebitWrite(p)
  \/ \E p \in Procs : StepExpenseEnd(p)
  \/ \E p \in Procs : StepExpensesRead(p)
  \/ \E p \in Procs : StepExpensesWrite(p)
  \/ \E p \in Procs : StepSaveLock(p)
  \/ \E p \in Procs : StepSaveWrite(p)

SpecConcurrent == InitService /\ [][NextConcurrent]_vars

\* ------------------------------------- rules that name a category the user lacks
\* a CategoryType outside the declared constants (src/main.go) and a category
\* name no category has (src/unnamed/part_000)
UnknownCategory == "CategoryType(3)"

UnknownCategoryF == "Travel"

PctRule(t, p) == [CategoryType |-> t, Percentage |-> p]

PctRuleF(n, p) ==
  [CategoryName |-> n, Type |-> "Percentage", Amount |-> NewMoney(0, ""), Percentage |-> p]

FixedRuleF(n, a) ==
  [CategoryName |-> n, Type |-> "FixedAmount", Amount |-> NewMoney(a, "USD"), Percentage |-> 0]

AnyRuleLists ==
  {<<PctRule("Expense", PctDen \div 2), PctRule(UnknownCategory, 1)>>,
   <<PctRule(UnknownCategory, 1), PctRule("Expense", PctDen \div 2)>>,
   <<PctRule("Expense", PctDen \div 2), PctRule("Savings", 1), PctRule("Expense", 1)>>,
   <<PctRule("Expense", PctDen - 1), PctRule("Savings", PctDen \div 2)>>}

AnyRuleListsF ==
  {<<PctRuleF("Expense", PctDen \div 2), PctRuleF(UnknownCategoryF, 1)>>,
   <<FixedRuleF("Savings", PctDen), PctRuleF(UnknownCategoryF, 1), PctRuleF("Expense", 1)>>,
   <<FixedRuleF("Savings", PctDen), PctRuleF("Expense", PctDen \div 2),
     FixedRuleF("Expense", PctDen)>>,
   <<FixedRuleF("Savings", 3 * PctDen), PctRuleF("Expense", PctDen - 1),
     PctRuleF("Savings", PctDen \div 2)>>}

SetAnyRules ==
  /\ calls = 0
  /\ AllocationRules = <<>>
  /\ \E rules \in (IF program = "main" THEN AnyRuleLists ELSE AnyRuleListsF) :
       AllocationRules' = rules
  /\ last' = [op |-> "SetRules"]
  /\ UNCHANGED <<program, Categories, Incomes, Expenses, calls, heap, repo, procs>>

NextAnyRules ==
  \/ SetAnyRules
  \/ \E a \in LedgerIncomes, d \in LedgerDates : AllocateIncome(Usd(a), d)
  \/ \E a \in ExpenseAmounts, d \in Dates : ProcessExpense(NewTransaction(Usd(a), d))
  \/ \E a \in IncomeAmountsF : AllocateIncomeF(Usd(a))
  \/ \E a \in ExpenseAmounts, d \in Dates : ProcessExpenseF(NewTransaction(Usd(a), d))

SpecAnyRules == Init /\ [][NextAnyRules]_vars

\* ------------------------------------------ Money.Add and Money.Subtract on a value
\* last.m is the Money value at hand; a call replaces it by its result
MoneyAmounts == {-3, 0, 3, 2 ^ FloatBits}

Currencies == {"USD", "EUR"}

MoneyOps == {"Money.Add", "Money.Subtract"}

BeforeMoney == IF last.op \in MoneyOps
                 THEN [op |-> last.op, a |-> last.a, b |-> last.b]
                 ELSE [op |-> last.op]

MoneyCall(op, result, other) ==
  /\ calls < MaxCalls
  /\ last' = [op |-> op, a |-> last.m, b |-> other, m |-> result, before |-> BeforeMoney]
  /\ calls' = calls + 1
  /\ UNCHANGED <<program, Categories, AllocationRules, Incomes, Expenses, heap, repo, procs>>

MoneyAdd(other) == program = "main" /\ MoneyCall("Money.Add", Add(last.m, other), other)

MoneySubtract(other) ==
  program = "main" /\ MoneyCall("Money.Subtract", Subtract(last.m, other), other)

MoneyAddF(other) == program = "part0" /\ MoneyCall("Money.Add", AddF(last.m, other), other)

MoneySubtractF(other) ==
  program = "part0" /\ MoneyCall("Money.Subtract", SubtractF(last.m, other), other)

InitMoney ==
  /\ program \in {"main", "part0"}
  /\ Categories = (IF program = "main" THEN NewUser ELSE NewUserF)
  /\ AllocationRules = <<>>
  /\ Incomes = <<>>
  /\ Expenses = <<>>
  /\ calls = 0
  /\ \E a \in MoneyAmounts, c \in Currencies : last = [op |-> "NewMoney", m |-> NewMoney(a, c)]
  /\ heap = <<>>
  /\ repo = NewInMemoryUserRepository
  /\ procs = <<>>

NextMoney ==
  \/ \E b \in MoneyAmounts : MoneyAdd(Usd(b))
  \/ \E b \in MoneyAmounts : MoneySubtract(Usd(b))
  \/ \E b \in MoneyAmounts : MoneyAddF(Usd(b))
  \/ \E b \in MoneyAmounts : MoneySubtractF(Usd(b))

SpecMoney == InitMoney /\ [][NextMoney]_vars

\* ============================================================== properties
Min(a, b) == IF a < b THEN a ELSE b

Bal(cats, t) == cats[t].Balance.Amount

TotalBalance(cats) == Bal(cats, "Expense") + Bal(cats, "Emergency") + Bal(cats, "Savings")

NonNegative(cats) == \A t \in CategoryTypes : Bal(cats, t) >= 0

\* the last call was ProcessExpense with an amount E >= 0 on non-negative balances
ExpenseCall ==
  /\ last.op = "ProcessExpense"
  /\ last.expense.Amount.Amount >= 0
  /\ NonNegative(last.pre.Categories)

C2_WaterfallOrder ==
  ExpenseCall =>
    /\ Bal(Categories, "Emergency") # Bal(last.pre.Categories, "Emergency")
         => Bal(Categories, "Expense") = 0
    /\ Bal(Categories, "Savings") # Bal(last.pre.Categories, "Savings")
         => Bal(Categories, "Expense") = 0 /\ Bal(Categories, "Emergency") = 0

\* Emergency absorbed part of an expense that Expense could not cover alone
C2_Witness ==
  /\ ExpenseCall
  /\ Bal(last.pre.Categories, "Expense") > 0
  /\ Bal(Categories, "Expense") = 0
  /\ Bal(Categories, "Emergency") > 0
  /\ Bal(Categories, "Emergency") < Bal(last.pre.Categories, "Emergency")
  /\ Bal(Categories, "Savings") = Bal(last.pre.Categories, "Savings")
  /\ Bal(Categories, "Savings") > 0

\* C4: ProcessExpense with E >= 0 on non-negative balances (e,g,s) fails, with the
\* insufficient-funds-across-all-categories error, if and only if E > e+g+s; when
\* it fails the expense log is unchanged and all three balances are 0 (the debits
\* applied stay: no rollback).
C4_InsufficientAcross ==
  ExpenseCall =>
    /\ last.err \in {NoError, ErrAcross}
    /\ last.err = ErrAcross
         <=> last.expense.Amount.Amount > TotalBalance(last.pre.Categories)
    /\ last.err = ErrAcross =>
         /\ Expenses = last.pre.Expenses
         /\ \A t \in CategoryTypes : Bal(Categories, t) = 0

\* a failed expense that took what was left in Savings, after an earlier expense
\* had been logged
C4_Witness ==
  /\ ExpenseCall
  /\ program = "main"
  /\ last.err = ErrAcross
  /\ Bal(last.pre.Categories, "Savings") > 0
  /\ Bal(Categories, "Savings") = 0
  /\ Len(Expenses) = 1

\* C3: an expense built by NewExpense for a nominal amount A > 0 and passed to
\* ProcessExpense is deducted as an expense of A by the waterfall: on balances
\* that cover A the call returns no error and leaves the balances of draining
\* Expense, then Emergency, then Savings by A in total.
C3_NewExpenseWaterfall ==
  LET A == -last.expense.Amount.Amount
      e == Bal(last.pre.Categories, "Expense")
      g == Bal(last.pre.Categories, "Emergency")
      s == Bal(last.pre.Categories, "Savings")
      fromExpense == Min(e, A)
      fromEmergency == Min(g, A - fromExpense)
      fromSavings == Min(s, A - fromExpense - fromEmergency)
  IN  (/\ program = "main"
       /\ last.op = "ProcessExpense"
       /\ last.expense.Amount.Amount < 0
       /\ NonNegative(last.pre.Categories)
       /\ A <= e + g + s)
      => /\ last.err = NoError
         /\ Bal(Categories, "Expense") = e - fromExpense
         /\ Bal(Categories, "Emergency") = g - fromEmergency
         /\ Bal(Categories, "Savings") = s - fromSavings

\* sums over a rule list, in total and by category
RECURSIVE SumSeq(_)
SumSeq(q) == IF q = <<>> THEN 0 ELSE Head(q) + SumSeq(Tail(q))

PctOf(rules) == SumSeq([i \in 1..Len(rules) |-> rules[i].Percentage])

PctFor(rules, t) ==
  SumSeq([i \in 1..Len(rules) |->
            IF rules[i].CategoryType = t THEN rules[i].Percentage ELSE 0])

PctForF(rules, t) ==
  SumSeq([i \in 1..Len(rules) |->
            IF rules[i].CategoryName = t /\ rules[i].Type = "Percentage"
              THEN rules[i].Percentage ELSE 0])

FixedForF(rules, t) ==
  SumSeq([i \in 1..Len(rules) |->
            IF rules[i].CategoryName = t /\ rules[i].Type = "FixedAmount"
              THEN rules[i].Amount.Amount ELSE 0])

FixedOfF(rules) ==
  SumSeq([i \in 1..Len(rules) |->
            IF rules[i].Type = "FixedAmount" THEN rules[i].Amount.Amount ELSE 0])

Credited(t) == Bal(Categories, t) - Bal(last.pre.Categories, t)

\* C5: allocation conservation (src/main.go): with a non-empty list of percentage
\* rules p_1..p_n of sum P <= 1 on existing categories, AllocateIncome(I) succeeds,
\* credits each category by exactly the sum of I*p_i over its rules, so that the
\* total credited is I*P, and appends exactly one income entry carrying I.
C5_AllocationConservation ==
  (/\ program = "main"
   /\ last.op = "AllocateIncome"
   /\ last.pre.AllocationRules # <<>>
   /\ PctOf(last.pre.AllocationRules) <= PctDen)
  => /\ last.err = NoError
     /\ \A t \in CategoryTypes :
          Credited(t) * PctDen = last.income.Amount * PctFor(last.pre.AllocationRules, t)
     /\ (TotalBalance(Categories) - TotalBalance(last.pre.Categories)) * PctDen
          = last.income.Amount * PctOf(last.pre.AllocationRules)
     /\ Incomes = Append(last.pre.Incomes, [Amount |-> last.income, Date |-> last.date])

\* a second income split by three rules over the three categories
C5_Witness ==
  /\ program = "main"
  /\ last.op = "AllocateIncome"
  /\ last.err = NoError
  /\ Len(AllocationRules) = 3
  /\ {AllocationRules[i].CategoryType : i \in 1..3} = CategoryTypes
  /\ \A t \in CategoryTypes : Bal(last.pre.Categories, t) > 0 /\ Credited(t) > 0
  /\ Len(Incomes) = 2

C7_PercentageOverflow ==
  (/\ last.op = "AllocateIncome"
   /\ PctOf(last.pre.AllocationRules) > PctDen)
  => /\ last.err = ErrPercentage
     /\ Categories = last.pre.Categories
     /\ Incomes = last.pre.Incomes
     /\ Expenses = last.pre.Expenses

\* the overflow is reported on a user whose balances an expense has changed
C7_Witness ==
  /\ program = "main"
  /\ last.op = "AllocateIncome"
  /\ last.err = ErrPercentage
  /\ Len(Expenses) > 0
  /\ \E t \in CategoryTypes : Bal(Categories, t) # 0

\* C8: AllocateIncome on a user with an empty rule list fails with the
\* no-allocation-planned error, credits no category and appends nothing to the
\* income log.
C8_NoAllocationPlanned ==
  (/\ last.op = "AllocateIncome"
   /\ last.pre.AllocationRules = <<>>)
  => /\ last.err = ErrNoAllocation
     /\ Categories = last.pre.Categories
     /\ Incomes = last.pre.Incomes

\* C9 as stated: AllocateIncome fails with the allocation-exceeds-income error
\* whenever the fixed amounts sum to more than the income, and no balance changes.
C9_Original ==
  (/\ program = "part0"
   /\ last.op = "AllocateIncome"
   /\ FixedOfF(last.pre.AllocationRules) > last.income.Amount)
  => /\ last.err = ErrFixed
     /\ Categories = last.pre.Categories

\* C9, amended: when the fixed amounts sum to more than the income, AllocateIncome
\* fails and no balance changes; the error is the allocation-exceeds-income error
\* unless the percentages also sum to more than 1, in which case it is the
\* percentage-overflow error (the percentages are checked first).
C9_FixedExceedsIncome ==
  (/\ program = "part0"
   /\ last.op = "AllocateIncome"
   /\ FixedOfF(last.pre.AllocationRules) > last.income.Amount)
  => /\ last.err = (IF PctOf(last.pre.AllocationRules) > PctDen
                      THEN ErrPercentage ELSE ErrFixed)
     /\ Categories = last.pre.Categories

\* two fixed rules that an earlier, larger income covered exceed this income
C9_Witness ==
  /\ program = "part0"
  /\ last.op = "AllocateIncome"
  /\ last.err = ErrFixed
  /\ TotalBalance(last.pre.Categories) > 0
  /\ PctOf(AllocationRules) > 0

PreBal == Bal(last.pre.Categories, last.category)

\* C10 as stated: Debit(amount) returns the insufficient-funds error and leaves the
\* balance unchanged when balance < amount, and otherwise succeeds with the new
\* balance exactly the old balance minus amount; Credit(amount) always succeeds
\* and the new balance is the old balance plus amount.
C10_Original ==
  /\ last.op = "Debit" =>
       IF PreBal < last.amount.Amount
         THEN /\ last.err = ErrInsufficient(last.category)
              /\ Bal(Categories, last.category) = PreBal
         ELSE /\ last.err = NoError
              /\ Bal(Categories, last.category) = PreBal - last.amount.Amount
  /\ last.op = "Credit" =>
       /\ last.err = NoError
       /\ Bal(Categories, last.category) = PreBal + last.amount.Amount

\* C10, amended: as stated, except that a successful Debit lowers the balance by
\* the magnitude of the amount: the new balance is the old balance minus |amount|,
\* which is the old balance minus amount exactly when amount >= 0.
C10_DebitCredit ==
  /\ last.op = "Debit" =>
       IF PreBal < last.amount.Amount
         THEN /\ last.err = ErrInsufficient(last.category)
              /\ Bal(Categories, last.category) = PreBal
         ELSE /\ last.err = NoError
              /\ Bal(Categories, last.category) = PreBal - Abs(last.amount.Amount)
  /\ last.op = "Credit" =>
       /\ last.err = NoError
       /\ Bal(Categories, last.category) = PreBal + last.amount.Amount

\* a Debit of a negative amount on a positive balance
C10_Witness ==
  /\ last.op = "Debit"
  /\ last.amount.Amount < 0
  /\ last.err = NoError
  /\ PreBal > 0
  /\ Bal(Categories, last.category) < PreBal

\* ------------------------------------------------------------ the ledger's logs
IsPrefix(s, t) == Len(s) <= Len(t) /\ SubSeq(t, 1, Len(s)) = s

LedgerOps ==
  {"AllocateIncome", "ProcessExpense", "ProcessAccountStatement",
   "GetPeriodSummary", "CheckIncomeStatus"}

\* a call of the ledger of src/main.go was the last step
LedgerCall == program = "main" /\ last.op \in LedgerOps

\* the logs after the last call extend the logs before it; a successful
\* AllocateIncome appended its income and nothing else, a successful ProcessExpense
\* appended its expense and nothing else
LogsExtended ==
  /\ IsPrefix(last.pre.Incomes, Incomes)
  /\ IsPrefix(last.pre.Expenses, Expenses)
  /\ last.op = "AllocateIncome" /\ last.err = NoError
       => /\ Incomes = Append(last.pre.Incomes, NewIncome(last.income, last.date))
          /\ Expenses = last.pre.Expenses
  /\ last.op = "ProcessExpense" /\ last.err = NoError
       => /\ Expenses = Append(last.pre.Expenses, last.expense)
          /\ Incomes = last.pre.Incomes

LogsUnchanged == Incomes = last.pre.Incomes /\ Expenses = last.pre.Expenses

\* C11 as stated: append-only logs: every call of AllocateIncome, ProcessExpense,
\* ProcessAccountStatement, GetPeriodSummary or CheckIncomeStatus leaves the logs
\* it found as prefixes of the logs it leaves; a successful AllocateIncome appends
\* exactly its income entry and no expense entry, a successful ProcessExpense
\* appends exactly its expense as the last expense entry and no income entry, and
\* a failed call or a query appends nothing.
C11_Original ==
  LedgerCall =>
    /\ LogsExtended
    /\ last.err # NoError \/ last.op \in QueryOps => LogsUnchanged

\* C11, amended: as stated, except that a failed ProcessAccountStatement appends
\* the expenses of its batch that were processed before the failing one (none when
\* the bank account is unknown), in batch order, and no income entry.
C11_AppendOnlyLogs ==
  LedgerCall =>
    /\ LogsExtended
    /\ last.op # "ProcessAccountStatement" /\ (last.err # NoError \/ last.op \in QueryOps)
         => LogsUnchanged
    /\ last.op = "ProcessAccountStatement" /\ last.err # NoError
         => /\ Incomes = last.pre.Incomes
            /\ \E k \in 0..(Len(last.statement.Expenses) - 1) :
                 Expenses = last.pre.Expenses \o SubSeq(last.statement.Expenses, 1, k)

\* a statement failed at a later expense after an earlier one of the batch was
\* appended, with an income logged before
C11_Witness ==
  /\ LedgerCall
  /\ last.op = "ProcessAccountStatement"
  /\ last.err = ErrAcross
  /\ Len(Expenses) > Len(last.pre.Expenses)
  /\ Len(Incomes) > 0

\* the entries of a log dated from the first to the last day of a period
InPeriod(log, period) ==
  LET Within(t) == period.StartDate <= t.Date /\ t.Date <= period.EndDate
  IN  SelectSeq(log, Within)

AmountsOf(log) == [i \in 1..Len(log) |-> log[i].Amount.Amount]

\* C12: GetPeriodSummary(period) returns, for each log, exactly the entries dated d
\* with start_date <= d <= end_date (both boundary dates included), in log order,
\* and each total is the sum of the amounts of the entries returned for that log
\* (zero when there are none).
C12_PeriodSummary ==
  LedgerCall /\ last.op = "GetPeriodSummary" =>
    /\ last.result.expensesInPeriod = InPeriod(last.pre.Expenses, last.period)
    /\ last.result.incomesInPeriod = InPeriod(last.pre.Incomes, last.period)
    /\ last.result.totalExpense.Amount = SumSeq(AmountsOf(last.result.expensesInPeriod))
    /\ last.result.totalIncome.Amount = SumSeq(AmountsOf(last.result.incomesInPeriod))

\* a summary that returned an expense dated on the first day and one dated on the
\* last day of the period, and left out an income dated before the period
C12_Witness ==
  /\ LedgerCall
  /\ last.op = "GetPeriodSummary"
  /\ \E i, j \in 1..Len(last.result.expensesInPeriod) :
       /\ i < j
       /\ last.result.expensesInPeriod[i].Date = last.period.StartDate
       /\ last.result.expensesInPeriod[j].Date = last.period.EndDate
       /\ last.period.StartDate < last.period.EndDate
  /\ last.result.incomesInPeriod = <<>>
  /\ last.result.totalIncome.Amount = 0
  /\ \E i \in 1..Len(last.pre.Incomes) : last.pre.Incomes[i].Date < last.period.StartDate

\* C13: GetPeriodSummary and CheckIncomeStatus are pure queries: a call changes no
\* balance, no rule and no log entry, and a call that directly follows a call of
\* the same query with the same period returns the same result.
C13_PureQueries ==
  LedgerCall /\ last.op \in QueryOps =>
    /\ Snapshot = last.pre
    /\ last.before.op = last.op /\ last.before.period = last.period
         => last.result = last.before.result

\* the same query was called twice in a row with the same period on a user with
\* a credited income, the period holding the logged income
C13_Witness ==
  /\ LedgerCall
  /\ last.op \in QueryOps
  /\ last.before.op = last.op
  /\ last.before.period = last.period
  /\ InPeriod(Incomes, last.period) # <<>>
  /\ Bal(Categories, "Expense") > 0

\* the amount the call before the last one took out of the balance of category t
TakenBefore(t) == Bal(last.before.pre.Categories, t) - Bal(last.pre.Categories, t)

\* C14: reserve-use detection: when CheckIncomeStatus is called right after a
\* successful ProcessExpense that took a non-zero amount out of Emergency or
\* Savings, for a period that contains that expense, it returns the reserves-used
\* warning that names the fund or funds the expense took from.
C14_ReserveUseDetected ==
  /\ LedgerCall
  /\ last.op = "CheckIncomeStatus"
  /\ last.before.op = "ProcessExpense"
  /\ last.before.err = NoError
  /\ TakenBefore("Emergency") > 0 \/ TakenBefore("Savings") > 0
  /\ Contains(last.period, last.before.expense.Date)
  => last.result = Warning(TakenBefore("Emergency") > 0, TakenBefore("Savings") > 0)

\* the amounts the expenses of a log were recorded for, whatever their sign
NominalOf(log) == [i \in 1..Len(log) |-> Abs(log[i].Amount.Amount)]

\* C15: CheckIncomeStatus returns the reserves-used warning exactly when the
\* Emergency or the Savings balance is below zero; otherwise it returns the
\* income-covers message exactly when the income total of the period is at least
\* the expense total of the period, and the expenses-exceed message if not; and
\* when the expenses of the period were recorded for a nominal total larger than
\* the income of the period, the message is the expenses-exceed one.
C15_IncomeStatus ==
  LedgerCall /\ last.op = "CheckIncomeStatus" =>
    LET reserveBelowZero == Bal(Categories, "Emergency") < 0 \/ Bal(Categories, "Savings") < 0
        income == SumSeq(AmountsOf(InPeriod(Incomes, last.period)))
        expense == SumSeq(AmountsOf(InPeriod(Expenses, last.period)))
        nominal == SumSeq(NominalOf(InPeriod(Expenses, last.period)))
    IN  /\ reserveBelowZero
             <=> last.result = Warning(Bal(Categories, "Emergency") < 0,
                                       Bal(Categories, "Savings") < 0)
        /\ ~reserveBelowZero
             => /\ last.result \in {MsgCovers, MsgExceed}
                /\ last.result = MsgCovers <=> income >= expense
                /\ nominal > income => last.result = MsgExceed

\* ---------------------------------------------------------------- statements
StatementCall == last.op = "ProcessAccountStatement"

\* the bank accounts of the categories the call found
AccountsBefore == {last.pre.Categories[t].BankAccount : t \in CategoryTypes}

\* C16: ProcessAccountStatement with a bank account whose number and name together
\* match no category fails with the unknown-bank-account error and processes none
\* of the statement's expenses: the balances and both logs are unchanged.
C16_UnknownBankAccount ==
  /\ program = "main"
  /\ StatementCall
  /\ last.statement.BankAccount \notin AccountsBefore
  => /\ last.err = ErrNoCategoryForAccount(last.statement.BankAccount)
     /\ Snapshot = last.pre

\* a statement whose account number is that of one category and whose bank name is
\* that of another was refused although the balances covered its first expense
C16_Witness ==
  /\ program = "main"
  /\ StatementCall
  /\ last.statement.BankAccount \notin AccountsBefore
  /\ \E t \in CategoryTypes :
       last.statement.BankAccount.AccountNumber = BankAccountOf(t).AccountNumber
  /\ \E t \in CategoryTypes :
       last.statement.BankAccount.BankName = BankAccountOf(t).BankName
  /\ last.statement.Expenses[1].Amount.Amount > 0
  /\ TotalBalance(Categories) >= last.statement.Expenses[1].Amount.Amount

\* the user after ProcessExpense was called on each of the first k expenses of a
\* list, one after the other, with the error of the k-th call
RECURSIVE AfterExpenses(_, _, _)
AfterExpenses(u, list, k) ==
  IF k = 0
    THEN [err |-> NoError, cats |-> u.Categories, expenses |-> u.Expenses]
    ELSE LET p == AfterExpenses(u, list, k - 1)
         IN  UserProcessExpense(p.cats, p.expenses, list[k])

RECURSIVE AfterExpensesF(_, _, _)
AfterExpensesF(u, list, k) ==
  IF k = 0
    THEN [err |-> NoError, cats |-> u.Categories]
    ELSE UserProcessExpenseF(AfterExpensesF(u, list, k - 1).cats, list[k])

\* the number of ProcessExpense calls made when the calls stop at the first failure
StopAt(list, Failed(_)) ==
  LET failing == {k \in 1..Len(list) : Failed(k)}
  IN  IF failing = {} THEN Len(list)
      ELSE CHOOSE k \in failing : \A j \in failing : k <= j

\* C17: ProcessAccountStatement with a bank account that matches a category is
\* equivalent to calling ProcessExpense on the statement's expenses one by one in
\* list order and stopping at the first failure: it returns that first error (nil
\* if none), the expenses before the failing one stay applied and logged, the
\* partial debits of the failing one stay, the later ones are not processed, and
\* the result is the same whichever category's account the statement names.
C17_StatementReplay ==
  /\ program = "main" /\ StatementCall /\ last.statement.BankAccount \in AccountsBefore
     => LET list == last.statement.Expenses
            Failed(k) == AfterExpenses(last.pre, list, k).err # NoError
            seq == AfterExpenses(last.pre, list, StopAt(list, Failed))
        IN  /\ last.err = seq.err
            /\ Categories = seq.cats
            /\ Expenses = seq.expenses
            /\ Incomes = last.pre.Incomes
            /\ \A b \in AccountsBefore :
                 UserProcessAccountStatement(last.pre.Categories, last.pre.Expenses,
                                             [last.statement EXCEPT !.BankAccount = b])
                   = [err |-> last.err, cats |-> Categories, expenses |-> Expenses]
  /\ program = "part0" /\ StatementCall
       /\ last.statement.BankAccountID \in AccountsBefore
     => LET list == last.statement.Expenses
            Failed(k) == AfterExpensesF(last.pre, list, k).err # NoError
            seq == AfterExpensesF(last.pre, list, StopAt(list, Failed))
        IN  /\ last.err = seq.err
            /\ Categories = seq.cats

\* a statement whose first expense was applied and logged, whose second expense
\* failed after draining every balance, and whose third expense, which would have
\* succeeded, was not processed
C17_Witness ==
  /\ program = "main"
  /\ StatementCall
  /\ last.statement.BankAccount \in AccountsBefore
  /\ Len(last.statement.Expenses) = 3
  /\ last.err = ErrAcross
  /\ Expenses = Append(last.pre.Expenses, last.statement.Expenses[1])
  /\ TotalBalance(last.pre.Categories) > last.statement.Expenses[1].Amount.Amount
  /\ TotalBalance(Categories) = 0
  /\ last.statement.Expenses[3].Amount.Amount = 0

\* ------------------------------------------------------------ the service layer
ServiceOps == {"FinanceService.AllocateIncome", "FinanceService.ProcessAccountStatement"}

\* the user GetByID returns for the ID of the last call, in the store the call
\* found and in the store now
StoredBefore == last.pre.heap[last.pre.repo.data[last.userID]]

StoredNow == heap[GetByID(repo, last.userID).user]

\* C18: when FinanceService.ProcessAccountStatement fails because an expense of
\* the batch cannot be covered, it returns the error of the domain call, does not
\* call Save, and the user GetByID returns afterwards has the balances and the
\* expense log the failed domain call left; when a service call fails with user
\* not found, unknown bank account, no allocation planned or percentage overflow,
\* the stored user and the store are unchanged and Save is not called.
C18_FailurePersistence ==
  /\ last.op = "FinanceService.ProcessAccountStatement"
       /\ last.userID \in DOMAIN last.pre.repo.data
     => LET d == UserProcessAccountStatement(StoredBefore.Categories,
                                             StoredBefore.Expenses, last.statement)
        IN  d.err = ErrAcross
              => /\ last.err = d.err
                 /\ ~last.saved
                 /\ GetByID(repo, last.userID).err = NoError
                 /\ StoredNow.Categories = d.cats
                 /\ StoredNow.Expenses = d.expenses
  /\ last.op \in ServiceOps
       /\ \/ last.err \in {ErrUserNotFound, ErrNoAllocation, ErrPercentage}
          \/ /\ last.op = "FinanceService.ProcessAccountStatement"
             /\ last.err = ErrNoCategoryForAccount(last.statement.BankAccount)
     => /\ ~last.saved
        /\ Stored = last.pre

\* a statement failed at its second expense; the stored user shows the first
\* expense logged and every balance drained although Save was not called
C18_Witness ==
  /\ last.op = "FinanceService.ProcessAccountStatement"
  /\ last.err = ErrAcross
  /\ ~last.saved
  /\ TotalBalance(StoredBefore.Categories) > 0
  /\ TotalBalance(StoredNow.Categories) = 0
  /\ Len(StoredNow.Expenses) = Len(StoredBefore.Expenses) + 1

\* ------------------------------------------------------------------ concurrency
\* the heap and the store after a service call made alone on st
AfterOp(st, o) ==
  LET r == IF o.op = "AllocateIncome"
             THEN ServiceAllocateIncome(st.heap, st.repo, "user123", o.income, o.now)
             ELSE ServiceProcessAccountStatement(st.heap, st.repo, "user123", o.statement)
  IN  [heap |-> r.heap, repo |-> r.repo]

\* C19: when two service calls on the same user that ran concurrently have both
\* returned, the user is in the state that running the two calls one after the
\* other, in one of the two orders, leaves: no credit, debit or log entry is lost.
C19_Serialized ==
  /\ procs # <<>>
  /\ \A p \in Procs : procs[p].pc = "done"
  => \/ heap = AfterOp(AfterOp(last.pre, last.ops[1]), last.ops[2]).heap
     \/ heap = AfterOp(AfterOp(last.pre, last.ops[2]), last.ops[1]).heap


\* C20: non-negative balances: in every state reached from NewUser by AllocateIncome
\* calls (income >= 0, percentages between 0 and 1) and ProcessExpense calls, with
\* expenses that carry a positive amount or were built by NewExpense, every
\* category balance is >= 0.
C20_NonNegativeBalances ==
  last.op \in {"NewUser", "SetRules", "AllocateIncome", "ProcessExpense"}
    => \A t \in CategoryTypes : Categories[t].Balance.Amount >= 0


\* ------------------------------------------------------------------ conservation
\* the rules sum to exactly 100% and every logged expense has a non-negative
\* amount: on a user of src/main.go this holds exactly in the states reached
\* by AllocateIncome calls and ProcessExpense calls with non-negative amounts
\* (an expense with a negative amount on non-negative balances succeeds and is
\* logged)
ConservationCase ==
  /\ program = "main"
  /\ last.op \in {"SetRules", "AllocateIncome", "ProcessExpense"}
  /\ PctOf(AllocationRules) = PctDen
  /\ \A i \in 1..Len(Expenses) : Expenses[i].Amount.Amount >= 0

LedgerNet == SumSeq(AmountsOf(Incomes)) - SumSeq(AmountsOf(Expenses))

AllocateCall == last.op = "AllocateIncome"

\* C22: AllocateIncome is all-or-nothing: whenever it fails, the unknown-category
\* failure for a rule that comes after valid rules included, every category
\* balance and the income log are as they were before the call.
C22_AllOrNothing ==
  AllocateCall /\ last.err # NoError
    => Categories = last.pre.Categories /\ Incomes = last.pre.Incomes

\* the lists that hold the rules of a list in some order
Reorderings(rules) ==
  LET n == Len(rules)
      bijections == {f \in [1..n -> 1..n] : \A i, j \in 1..n : f[i] = f[j] => i = j}
  IN  {[i \in 1..n |-> rules[f[i]]] : f \in bijections}

\* C23: rule order is unobservable: AllocateIncome with the rules in any other
\* order, on the same user and with the same income, has the same outcome
\* (success or the same error), the same resulting balances and the same income
\* log as the call that was made.
C23_RuleOrder ==
  AllocateCall =>
    \A rules \in Reorderings(last.pre.AllocationRules) :
      IF program = "main"
        THEN UserAllocateIncome(last.pre.Categories, rules, last.pre.Incomes,
                                last.income, last.date)
               = [err |-> last.err, cats |-> Categories, incomes |-> Incomes]
        ELSE UserAllocateIncomeF(last.pre.Categories, rules, last.income)
               = [err |-> last.err, cats |-> Categories]


\* ------------------------------------------------------------------------ Money
\* the last call subtracted the operand that the call before it had added
AddThenSubtract ==
  /\ last.op = "Money.Subtract"
  /\ last.before.op = "Money.Add"
  /\ last.before.b = last.b

\* C24 as stated: Money.Subtract is exact signed subtraction and the inverse of
\* Money.Add: for all amounts a and b, negative b included, a.Subtract(b) has the
\* amount a - b (negative results allowed, no clamping) and a's currency, so
\* a.Add(b).Subtract(b) equals a.
C24_Original ==
  /\ last.op = "Money.Subtract"
       => /\ last.m.Amount = last.a.Amount - last.b.Amount
          /\ last.m.Currency = last.a.Currency
  /\ AddThenSubtract => last.m = last.before.a

\* C24, amended: a.Subtract(b) has a's currency and is not clamped.  In
\* src/main.go its amount is a - |b|: it is a - b only for b >= 0, and
\* a.Add(b).Subtract(b) equals a for b >= 0 and has the amount a + 2b for b < 0.
\* In src/unnamed/part_000 its amount is a - b rounded to the nearest float, and
\* a.Add(b).Subtract(b) equals a whenever the sum a + b is representable.
C24_Subtract ==
  /\ last.op = "Money.Subtract"
       => /\ last.m.Currency = last.a.Currency
          /\ program = "main" => last.m.Amount = last.a.Amount - Abs(last.b.Amount)
          /\ program = "part0"
               => LET exact == last.a.Amount - last.b.Amount
                  IN  /\ 2 * Abs(last.m.Amount - exact) <= Quantum(Abs(exact))
                      /\ Abs(exact) < 2 ^ FloatBits => last.m.Amount = exact
  /\ AddThenSubtract
       => LET a == last.before.a
              sum == a.Amount + last.b.Amount
          IN  /\ program = "main" /\ last.b.Amount >= 0 => last.m = a
              /\ program = "main" /\ last.b.Amount < 0
                   => last.m.Amount = a.Amount + 2 * last.b.Amount
              /\ program = "part0" /\ RoundF(sum) = sum => last.m = a

\* in src/main.go a negative amount was added to a value in another currency and
\* then subtracted: the result is negative, keeps the value's currency and is
\* not the value the two calls started from
C24_Witness ==
  /\ program = "main"
  /\ AddThenSubtract
  /\ last.b.Amount < 0
  /\ last.m.Amount < 0
  /\ last.m.Currency # last.b.Currency
  /\ last.m # last.before.a

====
